---- MODULE Spec2Model ----
(***************************************************************************)
(* Model of main.js: the 4-lane rhythm-game analyzer (energy envelope,     *)
(* onset detection, beat-grid snapping, note synthesis) and its player     *)
(* (start/stop, key handling, hit judgment).                               *)
(*                                                                         *)
(* Times are exact rationals: every time is an integer number of ticks,    *)
(* TicksPerSec ticks to the second.  TicksPerSec is chosen so that every   *)
(* frame time (i+1)*step/sampleRate of the sample rates used, every grid   *)
(* time of the tempi used and the literals 0.08, 0.12, 0.15, 0.18, 0.30    *)
(* are whole numbers of ticks.  The JavaScript computes in IEEE doubles;   *)
(* the model computes the same expressions without rounding.               *)
(***************************************************************************)
EXTENDS Integers, Sequences, FiniteSets, TLC

VARIABLES
    audioCtx,          \* TRUE once the AudioContext has been created
    audioBuffer,       \* the decoded track, or NoTrack
    sampleRate,        \* let sampleRate = 44100
    loading,           \* tracks whose fileInput change handler is suspended at an await
    analyzing,         \* tracks whose analyze handler is suspended at await computeSpectralFrames
    onsets,            \* let onsets = []  (ticks)
    bpmEstimate,       \* let bpmEstimate = null
    energyEnv,         \* let energyEnv = null
    freqDataOverTime,  \* let freqDataOverTime = []
    notes,             \* let notes = []  (records [time, lane], time in ticks)
    startTime,         \* let startTime = 0
    playing,           \* let playing = false
    pressed,           \* let pressed = [false,false,false,false]
    score,             \* let score = 0
    combo,             \* let combo = 0
    idxNextNote,       \* let idxNextNote = 0
    currentTime,       \* audioCtx.currentTime (ticks)
    synth,             \* history: the chart the last note generation produced
    judged,            \* history: "inPlay" once a judgment removed a note of that
                       \* chart while playing, "thenStopped" once stop followed
    tally,             \* history: the chart length at the last start (at
                       \* generation before it) and the Perfect and Good
                       \* judgments since
    onTime,            \* history: lane and time of the note a press consumed
                       \* at exactly its time, while the clock, the start
                       \* time and the chart are those of that press
    last               \* history: the handler that ran last, with handleHit's locals

vars == << audioCtx, audioBuffer, sampleRate, loading, analyzing, onsets,
           bpmEstimate, energyEnv, freqDataOverTime, notes, startTime, playing,
           pressed, score, combo, idxNextNote, currentTime, synth, judged,
           tally, onTime, last >>

----------------------------------------------------------------------------
(* Units and program constants                                             *)

TicksPerSec == 441 * 1000

lanes == 4              \* const lanes = 4
win == 1024             \* const win = 1024
step == 512             \* const step = 512
DefaultSampleRate == 44100
DefaultBpm == 120       \* bpmEstimate || 120
DefaultSens == 15       \* parseFloat(...) || 1.5, in tenths

perfect == (8 * TicksPerSec) \div 100       \* const perfect = 0.08
good == (18 * TicksPerSec) \div 100         \* const good = 0.18
missWindow == (30 * TicksPerSec) \div 100   \* const missWindow = 0.30
onsetGap == (12 * TicksPerSec) \div 100     \* sec - last > 0.12
startDelay == (15 * TicksPerSec) \div 100   \* audioCtx.currentTime + 0.15
Far == 999 * TicksPerSec                    \* let mind = 999 / bestDiff = 999

\* audioBuffer undefined
NoTrack ==
    [name |-> "undefined", sampleRate |-> 0, length |-> 0, energy |-> << >>,
     tempo |-> 0, bands |-> << >>]
NoBpm == 0              \* bpmEstimate null (falsy, like 0)
NoEnv == << -1 >>       \* energyEnv null

Lanes == 0 .. (lanes - 1)

Abs(x) == IF x < 0 THEN -x ELSE x
Max(a, b) == IF a > b THEN a ELSE b

\* step/sampleRate seconds, in ticks
HopTicks(sr) == (step * TicksPerSec) \div sr

----------------------------------------------------------------------------
(* Analysis: envelope (main.js 72-80)                                      *)

\* mutant: the loop bound taken inclusive (i <= raw.length - win)
RECURSIVE WindowStartsInclusive(_, _)
WindowStartsInclusive(i, len) ==
    IF i <= len - win THEN << i >> \o WindowStartsInclusive(i + step, len)
    ELSE << >>

\* for(let i=0;i<raw.length-win;i+=step){ ... env.push(...) }: the window
\* starts i the loop visits, in order
RECURSIVE WindowStarts(_, _)
WindowStarts(i, len) ==
    IF i < len - win THEN << i >> \o WindowStarts(i + step, len) ELSE << >>

\* sqrt(sum/win) of the window starting at sample i.  A track carries the
\* energy of its successive windows as the repeating pattern track.energy.
WindowEnergy(track, i) ==
    track.energy[((i \div step) % Len(track.energy)) + 1]

ComputeEnvelope(track) ==
    LET starts == WindowStarts(0, track.length)
    IN  [k \in 1 .. Len(starts) |-> WindowEnergy(track, starts[k])]

----------------------------------------------------------------------------
(* Analysis: onset detection (main.js 83-102)                              *)

\* diffs.push(Math.max(0, env[i]-env[i-1])) for i = 1 .. env.length-1
Diffs(env) ==
    [j \in 1 .. (IF Len(env) = 0 THEN 0 ELSE Len(env) - 1) |->
        Max(0, env[j + 1] - env[j])]

RECURSIVE SeqMax(_)
SeqMax(s) ==
    IF Len(s) = 1 THEN s[1] ELSE Max(s[1], SeqMax(Tail(s)))

\* (maxd || 1); with no diffs norm is empty and the value is not used
MaxDiff(diffs) ==
    IF Len(diffs) = 0 THEN 1
    ELSE IF SeqMax(diffs) = 0 THEN 1 ELSE SeqMax(diffs)

\* parseFloat(sensitivitySlider.value) || 1.5, in tenths
Sens(v) == IF v = 0 THEN DefaultSens ELSE v

\* norm[i] > thresh, with norm = d/maxd and thresh = 0.18/sens:
\* d/maxd > 1.8/sens10  <=>  5*d*sens10 > 9*maxd
AboveThreshold(d, maxd, sens10) == 5 * d * sens10 > 9 * maxd

\* mutant: the gap test taken inclusive (>= 0.12)
GapOkInclusive(acc, sec) == Len(acc) = 0 \/ sec - acc[Len(acc)] >= onsetGap

\* mutant: no gap test
GapOkNone(acc, sec) == TRUE

\* if(onsets.length===0 || sec - onsets[onsets.length-1] > 0.12) onsets.push(sec)
GapOk(acc, sec) == Len(acc) = 0 \/ sec - acc[Len(acc)] > onsetGap

\* the loop over norm from index j (1-based; JavaScript's i is j-1, so that
\* sec = ((i+1)*step)/sampleRate = j * HopTicks)
RECURSIVE OnsetLoop(_, _, _, _, _, _)
OnsetLoop(j, diffs, maxd, sens10, sr, acc) ==
    IF j > Len(diffs) THEN acc
    ELSE LET sec == j * HopTicks(sr)
             nxt == IF AboveThreshold(diffs[j], maxd, sens10) /\ GapOk(acc, sec)
                    THEN Append(acc, sec) ELSE acc
         IN  OnsetLoop(j + 1, diffs, maxd, sens10, sr, nxt)

DetectOnsets(env, sensValue, sr) ==
    LET diffs == Diffs(env)
    IN  OnsetLoop(1, diffs, MaxDiff(diffs), Sens(sensValue), sr, << >>)

----------------------------------------------------------------------------
(* Tempo, spectral frames, beat grid: estimateBPMFromEnv,                  *)
(* computeSpectralFrames, freqToLane and buildBeatGrid are called by       *)
(* main.js but defined outside the 245 lines of it that are available;     *)
(* they are modelled from sections 4.3-4.5 of the specification.           *)

\* The tempo the estimator reports for a track's envelope (a whole BPM in
\* the plausible range), or NoBpm when the estimation fails.  The
\* autocorrelation is not modelled: its result is part of the track.
EstimateBPMFromEnv(track, env) ==
    IF Len(env) < 2 THEN NoBpm ELSE track.tempo

\* The per-frame band magnitudes of the track: one vector of `lanes`
\* magnitudes per spectral frame, frame f (0-based) at time f * hop.
ComputeSpectralFrames(track) == track.bands

\* the band (lane) of greatest magnitude, the lowest on ties
DominantLane(frame) ==
    CHOOSE l \in Lanes :
        /\ \A m \in Lanes : frame[m + 1] <= frame[l + 1]
        /\ \A m \in Lanes : frame[m + 1] = frame[l + 1] => l <= m

\* nearest frame by absolute time difference, the earlier on ties; lane 0
\* when there is no spectral data
FreqToLane(t, frames, sr) ==
    IF Len(frames) = 0 THEN 0
    ELSE LET dist(f) == Abs((f - 1) * HopTicks(sr) - t)
             f == CHOOSE f \in 1 .. Len(frames) :
                    /\ \A g \in 1 .. Len(frames) : dist(f) <= dist(g)
                    /\ \A g \in 1 .. Len(frames) : dist(g) = dist(f) => f <= g
         IN  DominantLane(frames[f])

\* audioBuffer.duration = length / sampleRate, in whole ticks (rounded down)
Duration(track) ==
    (track.length \div step) * HopTicks(track.sampleRate)
      + ((track.length % step) * HopTicks(track.sampleRate)) \div step

\* (60/bpm) / (subdiv/4): the grid spacing.  Exact for the tempi used.
GridSpacing(bpm, subdiv) == (60 * TicksPerSec * 4) \div (bpm * subdiv)

\* t_n = n * (60/bpm) * (4/d) for n = 0, 1, ... while t_n <= duration
RECURSIVE GridFrom(_, _, _)
GridFrom(t, spacing, duration) ==
    IF t <= duration THEN << t >> \o GridFrom(t + spacing, spacing, duration)
    ELSE << >>

BuildBeatGrid(bpm, subdiv, duration) ==
    GridFrom(0, GridSpacing(bpm, subdiv), duration)

----------------------------------------------------------------------------
(* Note synthesis (main.js 126-154)                                        *)

NoGrid == -1            \* let nearest = null

\* for(const g of grid){ const d = Math.abs(g - t); if(d < mind){...} }
RECURSIVE NearestLoop(_, _, _, _, _)
NearestLoop(k, grid, t, nearest, mind) ==
    IF k > Len(grid) THEN [nearest |-> nearest, mind |-> mind]
    ELSE LET d == Abs(grid[k] - t)
         IN  IF d < mind THEN NearestLoop(k + 1, grid, t, grid[k], d)
             ELSE NearestLoop(k + 1, grid, t, nearest, mind)

Nearest(grid, t) == NearestLoop(1, grid, t, NoGrid, Far)

\* mutant: the snap window taken from the default tempo
TooFarDefaultBpm(mind, bpm, subdiv) ==
    2 * mind > GridSpacing(DefaultBpm, subdiv)

\* if(mind > snapWindow) continue, with snapWindow = spacing / 2
TooFar(mind, bpm, subdiv) == 2 * mind > GridSpacing(bpm, subdiv)

\* the loop over onsets: candidates.push({time: nearest, lane})
RECURSIVE Candidates(_, _, _, _, _, _, _)
Candidates(k, ons, grid, bpm, subdiv, frames, sr) ==
    IF k > Len(ons) THEN << >>
    ELSE LET n == Nearest(grid, ons[k])
             rest == Candidates(k + 1, ons, grid, bpm, subdiv, frames, sr)
         IN  IF TooFar(n.mind, bpm, subdiv) THEN rest
             ELSE << [time |-> n.nearest,
                      lane |-> FreqToLane(ons[k], frames, sr)] >> \o rest

\* c.time.toFixed(3): the time rounded to the millisecond, halves up
TicksPerMs == TicksPerSec \div 1000
ToFixed3(t) == (2 * t + TicksPerMs) \div (2 * TicksPerMs)

\* const key = `${c.time.toFixed(3)}|${c.lane}`
Key(c) == << ToFixed3(c.time), c.lane >>

\* mutant: every candidate is kept (no merge by key)
MergeNoDedup(merged, c) == Append(merged, [key |-> Key(c), val |-> c])

\* merged[key] = c: an object keeps its keys in the order of first
\* insertion, and a later write to a key replaces the value in place
MergeOne(merged, c) ==
    IF \E k \in 1 .. Len(merged) : merged[k].key = Key(c)
    THEN [k \in 1 .. Len(merged) |->
            IF merged[k].key = Key(c) THEN [key |-> Key(c), val |-> c]
            ELSE merged[k]]
    ELSE Append(merged, [key |-> Key(c), val |-> c])

RECURSIVE Merge(_, _, _)
Merge(k, cands, merged) ==
    IF k > Len(cands) THEN merged
    ELSE Merge(k + 1, cands, MergeOne(merged, cands[k]))

\* Object.values(merged)
Values(merged) == [k \in 1 .. Len(merged) |-> merged[k].val]

\* the comparator (a,b)=>a.time-b.time
Compare(a, b) == a.time - b.time

\* Array.prototype.sort is stable: insert each element after the elements
\* that do not compare greater
RECURSIVE InsertSorted(_, _)
InsertSorted(s, x) ==
    IF Len(s) = 0 THEN << x >>
    ELSE IF Compare(s[Len(s)], x) > 0
         THEN Append(InsertSorted(SubSeq(s, 1, Len(s) - 1), x), s[Len(s)])
         ELSE Append(s, x)

RECURSIVE SortFrom(_, _, _)
SortFrom(k, s, acc) ==
    IF k > Len(s) THEN acc ELSE SortFrom(k + 1, s, InsertSorted(acc, s[k]))

Sort(s) == SortFrom(1, s, << >>)

\* bpmEstimate || 120
BpmOr120(bpm) == IF bpm = NoBpm THEN DefaultBpm ELSE bpm

GenerateNotes(track, ons, bpm, subdiv, frames, sr) ==
    LET b == BpmOr120(bpm)
        grid == BuildBeatGrid(b, subdiv, Duration(track))
        cands == Candidates(1, ons, grid, b, subdiv, frames, sr)
    IN  Sort(Values(Merge(1, cands, << >>)))

----------------------------------------------------------------------------
(* Hit judgment (main.js 199-230)                                          *)

NoIdx == -1             \* let bestIdx = -1

\* the scan for(let i=idxNextNote;i<notes.length;i++), i 0-based
RECURSIVE ScanLoop(_, _, _, _, _, _)
ScanLoop(i, ns, lane, now, bestIdx, bestDiff) ==
    IF ~(i < Len(ns)) THEN [bestIdx |-> bestIdx, bestDiff |-> bestDiff]
    ELSE LET n == ns[i + 1]
         IN  IF n.lane # lane
             THEN ScanLoop(i + 1, ns, lane, now, bestIdx, bestDiff)
             ELSE LET d == Abs(n.time - now)
                      bi == IF d < bestDiff THEN i ELSE bestIdx
                      bd == IF d < bestDiff THEN d ELSE bestDiff
                  IN  IF n.time - now > missWindow
                      THEN [bestIdx |-> bi, bestDiff |-> bd]
                      ELSE ScanLoop(i + 1, ns, lane, now, bi, bd)

\* mutant: the scan starts one note late
ScanSkipsFirst(ns, from, lane, now) ==
    ScanLoop(from + 1, ns, lane, now, NoIdx, Far)

Scan(ns, from, lane, now) == ScanLoop(from, ns, lane, now, NoIdx, Far)

\* mutant: notes.splice(bestIdx) (no delete count: removes to the end)
SpliceToEnd(ns, idx) == [k \in 1 .. idx |-> ns[k]]

\* mutant: the note after the selected one is removed
SpliceNext(ns, idx) == SubSeq(ns, 1, idx + 1) \o SubSeq(ns, idx + 3, Len(ns))

\* notes.splice(bestIdx,1), bestIdx 0-based
Splice(ns, idx) ==
    [k \in 1 .. (Len(ns) - 1) |-> IF k <= idx THEN ns[k] ELSE ns[k + 1]]

\* mutant: the perfect window taken exclusive (< perfect)
JudgeExclusive(ns, bestIdx, now) ==
    IF bestIdx = NoIdx THEN "NoCandidate"
    ELSE IF Abs(ns[bestIdx + 1].time - now) < perfect THEN "Perfect"
    ELSE IF Abs(ns[bestIdx + 1].time - now) <= good THEN "Good"
    ELSE "Miss"

\* the classification of the selected note
Judge(ns, bestIdx, now) ==
    IF bestIdx = NoIdx THEN "NoCandidate"
    ELSE IF Abs(ns[bestIdx + 1].time - now) <= perfect THEN "Perfect"
    ELSE IF Abs(ns[bestIdx + 1].time - now) <= good THEN "Good"
    ELSE "Miss"

----------------------------------------------------------------------------
(* Inputs: tracks, slider and select values, keys, clock instants          *)

MaxScore == 2           \* presses are followed up to a score of MaxScore * 500

\* A track: sample rate, number of samples, the energy of its windows, the
\* tempo its envelope yields and the band magnitudes of its spectral frames.
\* TrackA: 10 frames of 64 ms; rises at frames 2 (by 1), 6 and 9 (by 2).
TrackA ==
    [name |-> "A", sampleRate |-> 8000, length |-> win + 10 * step,
     energy |-> << 0, 0, 1, 0, 0, 0, 2, 0, 0, 2 >>, tempo |-> NoBpm,
     bands |-> << <<0, 1, 0, 0>>, <<0, 1, 0, 0>>, <<0, 2, 0, 1>>,
                  <<0, 1, 0, 0>>, <<0, 0, 0, 1>>, <<0, 0, 0, 1>>,
                  <<0, 0, 0, 3>>, <<0, 1, 0, 0>>, <<0, 1, 0, 0>>,
                  <<0, 2, 0, 1>> >>]

\* TrackB: 8 frames of 40 ms; rises at frames 2, 5 and 6: frame 5 is exactly
\* 0.12 s after frame 2.
TrackB ==
    [name |-> "B", sampleRate |-> 12800, length |-> win + 8 * step,
     energy |-> << 0, 0, 1, 0, 0, 1, 2, 0 >>, tempo |-> 150,
     bands |-> << <<0, 1, 0, 0>>, <<0, 1, 0, 0>>, <<0, 3, 0, 1>>,
                  <<0, 1, 0, 0>>, <<0, 1, 0, 0>>, <<0, 1, 0, 0>>,
                  <<0, 2, 0, 1>>, <<0, 1, 0, 0>> >>]

Tracks == { TrackA, TrackB }

SensValues == { 0, 3 }          \* slider: unparsable/0 (-> 1.5) and 0.3
Subdivs == { 4, 16 }            \* subdivSelect
Keys == { 1, 3 }                \* keyMap: 'g' -> 1, 'j' -> 3

\* playback times (since startTime) at which the clock is observed
NowTimes ==
    { 0, TicksPerSec \div 10, perfect, perfect + 1, good, good + 1,
      (32 * TicksPerSec) \div 100 }

ClockTimes == { 0 } \cup { startDelay + t : t \in NowTimes }

----------------------------------------------------------------------------
(* State machine                                                           *)

Op(name) == [op |-> name]

NoTally == [startLen |-> 0, perfects |-> 0, goods |-> 0]

NoPress == [lane |-> -1, time |-> -1]

Init ==
    /\ audioCtx = FALSE
    /\ audioBuffer = NoTrack
    /\ sampleRate = DefaultSampleRate
    /\ loading = {}
    /\ analyzing = {}
    /\ onsets = << >>
    /\ bpmEstimate = NoBpm
    /\ energyEnv = NoEnv
    /\ freqDataOverTime = << >>
    /\ notes = << >>
    /\ startTime = 0
    /\ playing = FALSE
    /\ pressed = [l \in Lanes |-> FALSE]
    /\ score = 0
    /\ combo = 0
    /\ idxNextNote = 0
    /\ currentTime = 0
    /\ synth = << >>
    /\ judged = "no"
    /\ tally = NoTally
    /\ onTime = NoPress
    /\ last = Op("init")

\* fileInput change, up to its first await (main.js 52-56)
LoadStart(t) ==
    /\ t \notin loading
    /\ audioCtx' = TRUE
    /\ loading' = loading \cup { t }
    /\ last' = Op("other")
    /\ UNCHANGED << audioBuffer, sampleRate, analyzing, onsets, bpmEstimate,
                    energyEnv, freqDataOverTime, notes, startTime, playing,
                    pressed, score, combo, idxNextNote, currentTime, synth,
                    judged, tally, onTime >>

\* fileInput change, after decodeAudioData resolves (main.js 57-59)
LoadFinish(t) ==
    /\ t \in loading
    /\ loading' = loading \ { t }
    /\ audioBuffer' = t
    /\ sampleRate' = t.sampleRate
    /\ last' = Op("other")
    /\ UNCHANGED << audioCtx, analyzing, onsets, bpmEstimate, energyEnv,
                    freqDataOverTime, notes, startTime, playing, pressed,
                    score, combo, idxNextNote, currentTime, synth,
                    judged, tally, onTime >>

\* fileInput change, when arrayBuffer or decodeAudioData rejects
LoadFail(t) ==
    /\ t \in loading
    /\ loading' = loading \ { t }
    /\ last' = Op("other")
    /\ UNCHANGED << audioCtx, audioBuffer, sampleRate, analyzing, onsets,
                    bpmEstimate, energyEnv, freqDataOverTime, notes, startTime,
                    playing, pressed, score, combo, idxNextNote, currentTime,
                    synth,
                    judged, tally, onTime >>

\* analyzeBtn click with no track: alert and return (main.js 64)
AnalyzeRejected ==
    /\ audioBuffer = NoTrack
    /\ last' = Op("rejected")
    /\ UNCHANGED << audioCtx, audioBuffer, sampleRate, loading, analyzing,
                    onsets, bpmEstimate, energyEnv, freqDataOverTime, notes,
                    startTime, playing, pressed, score, combo, idxNextNote,
                    currentTime, synth,
                    judged, tally, onTime >>

\* analyzeBtn click, up to await computeSpectralFrames (main.js 63-112)
AnalyzeClick(sensValue) ==
    /\ audioBuffer # NoTrack
    /\ audioBuffer \notin analyzing
    /\ LET env == ComputeEnvelope(audioBuffer)
       IN  /\ energyEnv' = env
           /\ onsets' = DetectOnsets(env, sensValue, sampleRate)
           /\ bpmEstimate' = EstimateBPMFromEnv(audioBuffer, env)
    /\ analyzing' = analyzing \cup { audioBuffer }
    /\ audioCtx' = TRUE
    /\ last' = Op("other")
    /\ UNCHANGED << audioBuffer, sampleRate, loading, freqDataOverTime, notes,
                    startTime, playing, pressed, score, combo, idxNextNote,
                    currentTime, synth,
                    judged, tally, onTime >>

\* analyzeBtn click, after computeSpectralFrames resolves (main.js 112-117)
AnalyzeFinish(t) ==
    /\ t \in analyzing
    /\ analyzing' = analyzing \ { t }
    /\ freqDataOverTime' = ComputeSpectralFrames(t)
    /\ last' = Op("other")
    /\ UNCHANGED << audioCtx, audioBuffer, sampleRate, loading, onsets,
                    bpmEstimate, energyEnv, notes, startTime, playing, pressed,
                    score, combo, idxNextNote, currentTime, synth,
                    judged, tally, onTime >>

\* analyzeBtn click, when computeSpectralFrames rejects: the handler ends
AnalyzeFail(t) ==
    /\ t \in analyzing
    /\ analyzing' = analyzing \ { t }
    /\ last' = Op("other")
    /\ UNCHANGED << audioCtx, audioBuffer, sampleRate, loading, onsets,
                    bpmEstimate, energyEnv, freqDataOverTime, notes, startTime,
                    playing, pressed, score, combo, idxNextNote, currentTime,
                    synth,
                    judged, tally, onTime >>

\* genNotesBtn click with no track: alert and return (main.js 122)
GenNotesRejected ==
    /\ audioBuffer = NoTrack
    /\ last' = Op("rejected")
    /\ UNCHANGED << audioCtx, audioBuffer, sampleRate, loading, analyzing,
                    onsets, bpmEstimate, energyEnv, freqDataOverTime, notes,
                    startTime, playing, pressed, score, combo, idxNextNote,
                    currentTime, synth,
                    judged, tally, onTime >>

\* genNotesBtn click (main.js 121-159)
GenNotesClick(subdiv) ==
    /\ audioBuffer # NoTrack
    /\ notes' = GenerateNotes(audioBuffer, onsets, bpmEstimate, subdiv,
                              freqDataOverTime, sampleRate)
    /\ synth' = notes'
    /\ judged' = "no"
    /\ tally' = [startLen |-> Len(notes'), perfects |-> 0, goods |-> 0]
    /\ onTime' = NoPress
    /\ last' = [op |-> "gen", subdiv |-> subdiv]
    /\ UNCHANGED << audioCtx, audioBuffer, sampleRate, loading, analyzing,
                    onsets, bpmEstimate, energyEnv, freqDataOverTime, startTime,
                    playing, pressed, score, combo, idxNextNote, currentTime >>

\* mutant: startBtn click with no track starts playback
StartUnguarded ==
    /\ audioBuffer = NoTrack
    /\ audioCtx' = TRUE
    /\ startTime' = currentTime + startDelay
    /\ playing' = TRUE
    /\ score' = 0
    /\ combo' = 0
    /\ idxNextNote' = 0
    /\ last' = Op("start")
    /\ UNCHANGED << audioBuffer, sampleRate, loading, analyzing, onsets,
                    bpmEstimate, energyEnv, freqDataOverTime, notes, pressed,
                    currentTime, synth, judged, tally, onTime >>

\* startBtn click with no track: alert and return (main.js 163)
StartRejected ==
    /\ audioBuffer = NoTrack
    /\ last' = Op("rejected")
    /\ UNCHANGED << audioCtx, audioBuffer, sampleRate, loading, analyzing,
                    onsets, bpmEstimate, energyEnv, freqDataOverTime, notes,
                    startTime, playing, pressed, score, combo, idxNextNote,
                    currentTime, synth,
                    judged, tally, onTime >>

\* mutant: startBtn click leaves the score as it is
StartKeepsScore ==
    /\ audioBuffer # NoTrack
    /\ audioCtx' = TRUE
    /\ startTime' = currentTime + startDelay
    /\ playing' = TRUE
    /\ combo' = 0
    /\ idxNextNote' = 0
    /\ tally' = [startLen |-> Len(notes), perfects |-> 0, goods |-> 0]
    /\ onTime' = NoPress
    /\ last' = Op("start")
    /\ UNCHANGED << audioBuffer, sampleRate, loading, analyzing, onsets,
                    bpmEstimate, energyEnv, freqDataOverTime, notes, pressed,
                    score, currentTime, synth, judged >>

\* startBtn click (main.js 162-177)
StartClick ==
    /\ audioBuffer # NoTrack
    /\ audioCtx' = TRUE
    /\ startTime' = currentTime + startDelay
    /\ playing' = TRUE
    /\ score' = 0
    /\ combo' = 0
    /\ idxNextNote' = 0
    /\ tally' = [startLen |-> Len(notes), perfects |-> 0, goods |-> 0]
    /\ onTime' = NoPress
    /\ last' = Op("start")
    /\ UNCHANGED << audioBuffer, sampleRate, loading, analyzing, onsets,
                    bpmEstimate, energyEnv, freqDataOverTime, notes, pressed,
                    currentTime, synth,
                    judged >>

\* stopBtn click (main.js 179-182)
StopClick ==
    /\ playing' = FALSE
    /\ judged' = IF judged = "inPlay" THEN "thenStopped" ELSE judged
    /\ last' = Op("other")
    /\ UNCHANGED << audioCtx, audioBuffer, sampleRate, loading, analyzing,
                    onsets, bpmEstimate, energyEnv, freqDataOverTime, notes,
                    startTime, pressed, score, combo, idxNextNote, currentTime,
                    synth, tally, onTime >>

\* handleHit(lane) (main.js 199-230): the effect on score, combo and notes
HandleHit(lane) ==
    LET now == currentTime - startTime
        sel == Scan(notes, idxNextNote, lane, now)
        res == Judge(notes, sel.bestIdx, now)
        removes == res \in { "Perfect", "Good" }
    IN  /\ last' = [op |-> "hit", lane |-> lane, now |-> now,
                    bestIdx |-> sel.bestIdx, bestDiff |-> sel.bestDiff,
                    result |-> res]
        /\ judged' = IF playing /\ removes THEN "inPlay" ELSE judged
        /\ tally' = [tally EXCEPT
                        !.perfects = IF res = "Perfect" THEN @ + 1 ELSE @,
                        !.goods = IF res = "Good" THEN @ + 1 ELSE @]
        /\ onTime' = IF res = "Perfect" /\ sel.bestDiff = 0
                      THEN [lane |-> lane, time |-> now]
                      ELSE onTime
        /\ IF res = "Perfect"
           THEN /\ score' = score + 1000
                /\ combo' = combo + 1
                /\ notes' = Splice(notes, sel.bestIdx)
           ELSE IF res = "Good"
           THEN /\ score' = score + 500
                /\ combo' = combo + 1
                /\ notes' = Splice(notes, sel.bestIdx)
           ELSE /\ combo' = 0
                /\ UNCHANGED << score, notes >>

\* keydown of a mapped key that is not held (main.js 186-191)
KeyDown(lane) ==
    /\ ~pressed[lane]
    /\ audioCtx
    /\ HandleHit(lane)
    /\ pressed' = [pressed EXCEPT ![lane] = TRUE]
    /\ UNCHANGED << audioCtx, audioBuffer, sampleRate, loading, analyzing,
                    onsets, bpmEstimate, energyEnv, freqDataOverTime, startTime,
                    playing, idxNextNote, currentTime, synth >>

\* keydown, followed only while the score is below the cap
KeyDownCapped(lane) ==
    /\ score < MaxScore * 500
    /\ KeyDown(lane)

\* keydown before any AudioContext exists: handleHit throws at
\* audioCtx.currentTime and the handler ends before pressed[...] = true
KeyDownThrows(lane) ==
    /\ ~pressed[lane]
    /\ ~audioCtx
    /\ last' = Op("other")
    /\ UNCHANGED << audioCtx, audioBuffer, sampleRate, loading, analyzing,
                    onsets, bpmEstimate, energyEnv, freqDataOverTime, notes,
                    startTime, playing, pressed, score, combo, idxNextNote,
                    currentTime, synth,
                    judged, tally, onTime >>

\* mutant: keydown of a key that is held is judged as well
KeyRepeatJudges(lane) ==
    /\ pressed[lane]
    /\ audioCtx
    /\ HandleHit(lane)
    /\ UNCHANGED << audioCtx, audioBuffer, sampleRate, loading, analyzing,
                    onsets, bpmEstimate, energyEnv, freqDataOverTime, startTime,
                    playing, pressed, idxNextNote, currentTime, synth >>

\* keydown of a key that is held (auto-repeat): handleHit is not called
KeyRepeat(lane) ==
    /\ pressed[lane]
    /\ last' = Op("keyrepeat")
    /\ UNCHANGED << audioCtx, audioBuffer, sampleRate, loading, analyzing,
                    onsets, bpmEstimate, energyEnv, freqDataOverTime, notes,
                    startTime, playing, pressed, score, combo, idxNextNote,
                    currentTime, synth,
                    judged, tally, onTime >>

\* keyup of a mapped key (main.js 193-196)
KeyUp(lane) ==
    /\ pressed' = [pressed EXCEPT ![lane] = FALSE]
    /\ last' = Op("keyup")
    /\ UNCHANGED << audioCtx, audioBuffer, sampleRate, loading, analyzing,
                    onsets, bpmEstimate, energyEnv, freqDataOverTime, notes,
                    startTime, playing, score, combo, idxNextNote, currentTime,
                    synth,
                    judged, tally, onTime >>

\* the audio clock advances
Tick(t) ==
    /\ audioCtx
    /\ t > currentTime
    /\ currentTime' = t
    /\ onTime' = NoPress
    /\ last' = Op("other")
    /\ UNCHANGED << audioCtx, audioBuffer, sampleRate, loading, analyzing,
                    onsets, bpmEstimate, energyEnv, freqDataOverTime, notes,
                    startTime, playing, pressed, score, combo, idxNextNote,
                    synth,
                    judged, tally >>

\* the analysis pipeline and the transport buttons
Pipeline ==
    \/ \E t \in Tracks : LoadStart(t)
    \/ \E t \in Tracks : LoadFinish(t)
    \/ \E t \in Tracks : LoadFail(t)
    \/ AnalyzeRejected
    \/ \E v \in SensValues : AnalyzeClick(v)
    \/ \E t \in Tracks : AnalyzeFinish(t)
    \/ \E t \in Tracks : AnalyzeFail(t)
    \/ GenNotesRejected
    \/ \E d \in Subdivs : GenNotesClick(d)
    \/ StartRejected
    \/ StartClick
    \/ StopClick

\* the keyboard and the audio clock
Player ==
    \/ \E k \in Keys : KeyDownCapped(k)
    \/ \E k \in Keys : KeyDownThrows(k)
    \/ \E k \in Keys : KeyRepeat(k)
    \/ \E k \in Keys : KeyUp(k)
    \/ \E t \in ClockTimes : Tick(t)

Next == Pipeline \/ Player

\* The whole program.
Spec == Init /\ [][Next]_vars

----------------------------------------------------------------------------
(* The pipeline alone: no key is pressed and the clock stands still.  The  *)
(* keyboard handlers and the clock write none of the variables the         *)
(* pipeline reads except notes (read by no pipeline handler).              *)

NextPipeline ==
    \/ \E t \in Tracks : LoadStart(t)
    \/ \E t \in Tracks : LoadFinish(t)
    \/ \E t \in Tracks : LoadFail(t)
    \/ AnalyzeRejected
    \/ \E v \in SensValues : AnalyzeClick(v)
    \/ \E t \in Tracks : AnalyzeFinish(t)
    \/ \E t \in Tracks : AnalyzeFail(t)
    \/ GenNotesRejected
    \/ \E d \in Subdivs : GenNotesClick(d)
    \/ StartRejected
    \/ StartClick
    \/ StopClick

SpecPipeline == Init /\ [][NextPipeline]_vars

----------------------------------------------------------------------------
(* A playing session: the state after a track was loaded, analyzed (until  *)
(* computeSpectralFrames resolved or rejected) and its notes generated;    *)
(* then note generation, start, stop, keys and clock.                      *)

Analyzed(t, v, d, frames) ==
    LET env == ComputeEnvelope(t)
        ons == DetectOnsets(env, v, t.sampleRate)
        bpm == EstimateBPMFromEnv(t, env)
    IN  /\ audioCtx = TRUE
        /\ audioBuffer = t
        /\ sampleRate = t.sampleRate
        /\ loading = {}
        /\ analyzing = {}
        /\ onsets = ons
        /\ bpmEstimate = bpm
        /\ energyEnv = env
        /\ freqDataOverTime = frames
        /\ notes = GenerateNotes(t, ons, bpm, d, frames, t.sampleRate)
        /\ synth = notes
        /\ judged = "no"
        /\ tally = [startLen |-> Len(notes), perfects |-> 0, goods |-> 0]
        /\ onTime = NoPress
        /\ startTime = 0
        /\ playing = FALSE
        /\ pressed = [l \in Lanes |-> FALSE]
        /\ score = 0
        /\ combo = 0
        /\ idxNextNote = 0
        /\ currentTime = 0
        /\ last = [op |-> "gen", subdiv |-> d]

\* the spectral frames are those of the track, or none when
\* computeSpectralFrames rejected
InitPlay ==
    \E t \in Tracks, v \in SensValues, d \in Subdivs :
        \E frames \in { << >>, ComputeSpectralFrames(t) } :
            Analyzed(t, v, d, frames)

NextPlay ==
    \/ \E d \in Subdivs : GenNotesClick(d)
    \/ StartClick
    \/ StopClick
    \/ \E k \in Keys : KeyDownCapped(k)
    \/ \E k \in Keys : KeyRepeat(k)
    \/ \E k \in Keys : KeyUp(k)
    \/ \E t \in ClockTimes : Tick(t)

SpecPlay == InitPlay /\ [][NextPlay]_vars

----------------------------------------------------------------------------
(* One generated chart played without regeneration: start, stop, keys and  *)
(* clock from the state after note generation.  The chart only shrinks, so *)
(* the score is bounded by the chart and needs no cap.                     *)

NextSession ==
    \/ StartClick
    \/ StopClick
    \/ \E k \in Keys : KeyDown(k)
    \/ \E k \in Keys : KeyRepeat(k)
    \/ \E k \in Keys : KeyUp(k)
    \/ \E t \in ClockTimes : Tick(t)

SpecSession == InitPlay /\ [][NextSession]_vars

----------------------------------------------------------------------------
(* Onset detection alone (main.js 83-102), applied to every envelope of up *)
(* to MaxFrames frames over EnvLevels and to the scenario envelope.        *)

MaxFrames == 6

EnvLevels == { 0, 1, 2 }

ScenarioEnv == << 0, 0, 1, 0, 0, 1, 0, 0, 1 >>

RECURSIVE SeqsUpTo(_)
SeqsUpTo(n) ==
    IF n = 0 THEN { << >> }
    ELSE LET shorter == SeqsUpTo(n - 1)
         IN  shorter \cup { Append(e, x) : e \in { q \in shorter : Len(q) = n - 1 },
                                           x \in EnvLevels }

EnvInputs == SeqsUpTo(MaxFrames) \cup { ScenarioEnv }

SampleRates == { 8000, 12800, DefaultSampleRate }

OnsetSens == { 0, 3, 15 }       \* slider: unparsable/0 (-> 1.5), 0.3 and 1.5

InitOnset ==
    /\ audioCtx = TRUE
    /\ audioBuffer = NoTrack
    /\ sampleRate \in SampleRates
    /\ loading = {}
    /\ analyzing = {}
    /\ onsets = << >>
    /\ bpmEstimate = NoBpm
    /\ energyEnv \in EnvInputs
    /\ freqDataOverTime = << >>
    /\ notes = << >>
    /\ startTime = 0
    /\ playing = FALSE
    /\ pressed = [l \in Lanes |-> FALSE]
    /\ score = 0
    /\ combo = 0
    /\ idxNextNote = 0
    /\ currentTime = 0
    /\ synth = << >>
    /\ judged = "no"
    /\ tally = NoTally
    /\ onTime = NoPress
    /\ last = Op("init")

\* step 2 of the analyze handler, on the envelope step 1 left in energyEnv
OnsetStep(v) ==
    /\ last.op = "init"
    /\ onsets' = DetectOnsets(energyEnv, v, sampleRate)
    /\ last' = [op |-> "onsets", sens |-> v]
    /\ UNCHANGED << audioCtx, audioBuffer, sampleRate, loading, analyzing,
                    bpmEstimate, energyEnv, freqDataOverTime, notes, startTime,
                    playing, pressed, score, combo, idxNextNote, currentTime,
                    synth, judged, tally, onTime >>

NextOnset == \E v \in OnsetSens : OnsetStep(v)

SpecOnset == InitOnset /\ [][NextOnset]_vars

----------------------------------------------------------------------------
(* The envelope loop alone (main.js 72-80), applied to every buffer of up  *)
(* to MaxSamples samples.                                                  *)

MaxSamples == 2600

Buffer(n) ==
    [name |-> "buffer", sampleRate |-> 8000, length |-> n, energy |-> << 1 >>,
     tempo |-> NoBpm, bands |-> << >>]

InitEnv ==
    /\ audioCtx = TRUE
    /\ audioBuffer \in { Buffer(n) : n \in 0 .. MaxSamples }
    /\ sampleRate = audioBuffer.sampleRate
    /\ loading = {}
    /\ analyzing = {}
    /\ onsets = << >>
    /\ bpmEstimate = NoBpm
    /\ energyEnv = NoEnv
    /\ freqDataOverTime = << >>
    /\ notes = << >>
    /\ startTime = 0
    /\ playing = FALSE
    /\ pressed = [l \in Lanes |-> FALSE]
    /\ score = 0
    /\ combo = 0
    /\ idxNextNote = 0
    /\ currentTime = 0
    /\ synth = << >>
    /\ judged = "no"
    /\ tally = NoTally
    /\ onTime = NoPress
    /\ last = Op("init")

\* step 1 of the analyze handler
EnvelopeStep ==
    /\ last.op = "init"
    /\ energyEnv' = ComputeEnvelope(audioBuffer)
    /\ last' = Op("envelope")
    /\ UNCHANGED << audioCtx, audioBuffer, sampleRate, loading, analyzing,
                    onsets, bpmEstimate, freqDataOverTime, notes, startTime,
                    playing, pressed, score, combo, idxNextNote, currentTime,
                    synth, judged, tally, onTime >>

NextEnv == EnvelopeStep

SpecEnv == InitEnv /\ [][NextEnv]_vars

----------------------------------------------------------------------------
(* The scan of handleHit alone (main.js 208-229): a key pressed during     *)
(* playback, for every time-sorted chart of up to MaxNotes notes over      *)
(* ScanTimes and the mapped lanes, at every instant of ScanNows.           *)

MaxNotes == 3

\* note times: 0 s, 0.16 s, 0.36 s, 0.70 s, and 1000 s (a long track)
ScanTimes ==
    { 0, (16 * TicksPerSec) \div 100, (36 * TicksPerSec) \div 100,
      (70 * TicksPerSec) \div 100, 1000 * TicksPerSec }

\* press times: midway between two notes (0.08 s, 0.26 s), 0.31 s and
\* 0.30 s before the note at 0.70 s
ScanNows ==
    { (8 * TicksPerSec) \div 100, (26 * TicksPerSec) \div 100,
      (39 * TicksPerSec) \div 100, (40 * TicksPerSec) \div 100 }

NotePool == [time : ScanTimes, lane : Keys]

\* the orders of the notes of S that are sorted by time
SortedCharts(S) ==
    { c \in [1 .. Cardinality(S) -> S] :
        /\ \A i, j \in 1 .. Cardinality(S) : i # j => c[i] # c[j]
        /\ \A i \in 1 .. Cardinality(S) - 1 : c[i].time <= c[i + 1].time }

ScanCharts ==
    UNION { SortedCharts(S) :
              S \in { T \in SUBSET NotePool : Cardinality(T) <= MaxNotes } }

LongTrack ==
    [name |-> "long", sampleRate |-> 8000, length |-> 1001 * 8000,
     energy |-> << >>, tempo |-> NoBpm, bands |-> << >>]

InitScan ==
    /\ audioCtx = TRUE
    /\ audioBuffer = LongTrack
    /\ sampleRate = LongTrack.sampleRate
    /\ loading = {}
    /\ analyzing = {}
    /\ onsets = << >>
    /\ bpmEstimate = NoBpm
    /\ energyEnv = NoEnv
    /\ freqDataOverTime = << >>
    /\ notes \in ScanCharts
    /\ startTime = startDelay
    /\ playing = TRUE
    /\ pressed = [l \in Lanes |-> FALSE]
    /\ score = 0
    /\ combo = 0
    /\ idxNextNote = 0
    /\ currentTime \in { startDelay + t : t \in ScanNows }
    /\ synth = notes
    /\ judged = "no"
    /\ tally = [startLen |-> Len(notes), perfects |-> 0, goods |-> 0]
    /\ onTime = NoPress
    /\ last = Op("start")

NextScan == \E k \in Keys : KeyDown(k)

SpecScan == InitScan /\ [][NextScan]_vars

----------------------------------------------------------------------------
(* Note synthesis alone (main.js 121-159): Generate Notes clicked on track *)
(* A with every onset list of up to MaxOnsets onsets at frame times more   *)
(* than 0.12 s apart, an estimated tempo of 75 or 150 BPM or none, and the *)
(* spectral frames of the track or none.                                   *)

MaxOnsets == 2

\* onset times: sec = ((i+1)*step)/sampleRate for the frames of track A
OnsetTimes == { f * HopTicks(TrackA.sampleRate) : f \in 1 .. 9 }

RECURSIVE OnsetLists(_)
OnsetLists(n) ==
    IF n = 0 THEN { << >> }
    ELSE LET shorter == OnsetLists(n - 1)
         IN  shorter \cup
             { Append(o, t) : o \in { q \in shorter : Len(q) = n - 1 },
                              t \in OnsetTimes }

OnsetInputs ==
    { o \in OnsetLists(MaxOnsets) :
        \A k \in 1 .. Len(o) - 1 : o[k + 1] - o[k] > onsetGap }

BpmEstimates == { NoBpm, 75, 150 }

InitSynth ==
    /\ audioCtx = TRUE
    /\ audioBuffer = TrackA
    /\ sampleRate = TrackA.sampleRate
    /\ loading = {}
    /\ analyzing = {}
    /\ onsets \in OnsetInputs
    /\ bpmEstimate \in BpmEstimates
    /\ energyEnv = ComputeEnvelope(TrackA)
    /\ freqDataOverTime \in { << >>, ComputeSpectralFrames(TrackA) }
    /\ notes = << >>
    /\ startTime = 0
    /\ playing = FALSE
    /\ pressed = [l \in Lanes |-> FALSE]
    /\ score = 0
    /\ combo = 0
    /\ idxNextNote = 0
    /\ currentTime = 0
    /\ synth = << >>
    /\ judged = "no"
    /\ tally = NoTally
    /\ onTime = NoPress
    /\ last = Op("other")

NextSynth == \E d \in Subdivs : GenNotesClick(d)

SpecSynth == InitSynth /\ [][NextSynth]_vars

----------------------------------------------------------------------------
(* Properties                                                              *)

\* a step in which handleHit(l) ran: pressed[l] goes from false to true
Press(l) == ~pressed[l] /\ pressed'[l]

\* ns without its k-th element (k 1-based)
Without(ns, k) == SubSeq(ns, 1, k - 1) \o SubSeq(ns, k + 1, Len(ns))

MissEffect == combo' = 0 /\ score' = score /\ notes' = notes

HitEffect(points, k) ==
    score' = score + points /\ combo' = combo + 1 /\ notes' = Without(notes, k)

C1Judged(l) ==
    LET now == currentTime - startTime
        k == last'.bestIdx + 1
    IN  IF \A i \in 1 .. Len(notes) : notes[i].lane # l
        THEN MissEffect
        ELSE /\ k \in 1 .. Len(notes)
             /\ notes[k].lane = l
             /\ LET d == Abs(notes[k].time - now)
                IN  IF d <= perfect THEN HitEffect(1000, k)
                    ELSE IF d <= good THEN HitEffect(500, k)
                    ELSE MissEffect

\* C1: every press on a lane, with d the distance in time between now and
\* the same-lane note the scan selected, is Perfect when d <= 0.08 (score
\* +1000, combo +1, the note removed), Good when 0.08 < d <= 0.18 (score
\* +500, combo +1, the note removed) and a Miss when d > 0.18 or the chart
\* has no same-lane note (combo 0, score and chart unchanged).
C1_JudgmentWindows == [][\A l \in Lanes : Press(l) => C1Judged(l)]_vars

\* a press exactly 0.08 s from the selected note was judged Perfect
C1_Witness ==
    /\ last.op = "hit"
    /\ last.bestDiff = perfect
    /\ score = 1000
    /\ combo = 1
    /\ Len(notes) = Len(synth) - 1

\* C2 (as claimed): at a playback start that follows a session in which
\* presses were judged and which was stopped, the chart equals the chart
\* note synthesis produced.
C2_ReplayStartsFresh ==
    (last.op = "start" /\ judged = "thenStopped") => notes = synth

ComboWritten == combo' # combo \/ last'.result \in { "Miss", "NoCandidate" }

\* C3 (as claimed): every press updates exactly one of score and combo and
\* removes at most one note.
C3_ExactlyOneUpdated ==
    [][\A l \in Lanes : Press(l) =>
          /\ (score' # score) # ComboWritten
          /\ Len(notes') >= Len(notes) - 1]_vars

\* C3 (amended): every press removes at most one note; it either raises the
\* score, raises combo by one and removes exactly one note (Perfect, Good),
\* or leaves score and chart unchanged and resets combo to 0 (Miss).
C3_HitOrMiss ==
    [][\A l \in Lanes : Press(l) =>
          /\ Len(notes') >= Len(notes) - 1
          /\ \/ /\ score' > score
                /\ combo' = combo + 1
                /\ Len(notes') = Len(notes) - 1
             \/ MissEffect]_vars

\* a press that raised score and combo together and left notes behind it
C3_Witness ==
    /\ last.op = "hit"
    /\ last.result = "Good"
    /\ score = 500
    /\ combo = 1
    /\ last.bestIdx < Len(notes)

\* C4 (as claimed): while playing, the chart changes only in a step in
\* which the judgment engine ran.
C4_OnlyJudgmentChangesChart ==
    [][(playing /\ notes' # notes) => \E l \in Lanes : Press(l)]_vars

\* C5 (as claimed): playing becomes true only when no analysis is suspended
\* at its await.
C5_NoStartDuringAnalysis ==
    [][(~playing /\ playing') => analyzing = {}]_vars

Spaced(ons) ==
    \A k \in 1 .. (Len(ons) - 1) : ons[k + 1] - ons[k] > onsetGap

\* the times of the frames whose normalized flux is above the threshold
CandidateTimes(env, sensValue, sr) ==
    LET diffs == Diffs(env)
    IN  { j * HopTicks(sr) : j \in { i \in 1 .. Len(diffs) :
            AboveThreshold(diffs[i], MaxDiff(diffs), Sens(sensValue)) } }

Accepted(ons) == { ons[k] : k \in 1 .. Len(ons) }

\* every onset is a candidate, and a candidate is left out exactly when it
\* is within 0.12 s of the accepted onset before it
FirstCandidateWins(ons, cands) ==
    /\ Accepted(ons) \subseteq cands
    /\ \A c \in cands :
          LET earlier == { a \in Accepted(ons) : a < c }
          IN  (c \in Accepted(ons)) <=>
                 (\A a \in earlier : c - a > onsetGap)

ScenarioRan ==
    /\ last.op = "onsets"
    /\ energyEnv = ScenarioEnv
    /\ sampleRate = DefaultSampleRate
    /\ Sens(last.sens) = DefaultSens

Frame(i) == i * HopTicks(DefaultSampleRate)

\* C7 (as claimed): the scenario envelope at 44100 Hz and sensitivity 1.5
\* yields the three onsets of frames 2, 5 and 8.
C7_ThreeOnsets == ScenarioRan => onsets = << Frame(2), Frame(5), Frame(8) >>

\* C7 (amended): the scenario envelope at 44100 Hz and sensitivity 1.5
\* yields one onset, at frame 2; the candidates of frames 5 and 8 are
\* within 0.12 s of it.
C7_OneOnset ==
    ScenarioRan =>
        /\ onsets = << Frame(2) >>
        /\ CandidateTimes(energyEnv, last.sens, sampleRate)
              = { Frame(2), Frame(5), Frame(8) }
        /\ Frame(8) - Frame(2) <= onsetGap

\* the scenario was analyzed
C7_Witness == ScenarioRan /\ Len(onsets) = 1

NoDuplicates(ns) ==
    \A i, j \in 1 .. Len(ns) :
        (ns[i].time = ns[j].time /\ ns[i].lane = ns[j].lane) => i = j

SortedByTime(ns) ==
    \A i, j \in 1 .. Len(ns) : i < j => ns[i].time <= ns[j].time

\* C8: the chart never holds two notes of the same time and lane and is
\* sorted ascending by time, freshly generated and after every judgment.
C8_ChartWellFormed ==
    /\ NoDuplicates(notes) /\ SortedByTime(notes)
    /\ NoDuplicates(synth) /\ SortedByTime(synth)

\* a judgment removed a note from the middle of a chart of three or more
C8_Witness ==
    /\ last.op = "hit"
    /\ last.result \in { "Perfect", "Good" }
    /\ last.bestIdx > 0
    /\ last.bestIdx < Len(notes)

\* C9 (as claimed): in the generated chart, notes of equal time are in
\* ascending lane order.
C9_TiesByLane ==
    \A i, j \in 1 .. Len(synth) :
        (i < j /\ synth[i].time = synth[j].time) => synth[i].lane <= synth[j].lane

\* C10 (as claimed): the envelope of a buffer of len samples has
\* floor((len - 1024) / 512) elements, none when len < 1024.
C10_FloorLength ==
    last.op = "envelope" =>
        Len(energyEnv) =
            IF audioBuffer.length < win THEN 0
            ELSE (audioBuffer.length - win) \div step

\* C10 (amended): the envelope has ceil((len - 1024) / 512) elements when
\* len > 1024 (one per window start 0, 512, ... below len - 1024) and none
\* when len <= 1024.
C10_CeilLength ==
    last.op = "envelope" =>
        Len(energyEnv) =
            IF audioBuffer.length <= win THEN 0
            ELSE (audioBuffer.length - win + step - 1) \div step

\* a buffer one sample longer than the window has a one-element envelope
C10_Witness ==
    /\ last.op = "envelope"
    /\ audioBuffer.length = win + 1
    /\ Len(energyEnv) = 1

----------------------------------------------------------------------------
(* C11: a press at exactly a note's time, and the same press repeated      *)

Now == currentTime - startTime

\* the notes of the generated chart that are no longer in the chart
Consumed ==
    { synth[i] : i \in 1 .. Len(synth) } \ { notes[i] : i \in 1 .. Len(notes) }

\* the press on lane l finds a note of that lane at exactly the current time
OnNote(l) == \E k \in 1 .. Len(notes) : notes[k] = [time |-> Now, lane |-> l]

\* the press on lane l is judged Perfect on the note at exactly this time
PerfectOnNote(l) ==
    \E k \in 1 .. Len(notes) :
        /\ notes[k] = [time |-> Now, lane |-> l]
        /\ HitEffect(1000, k)

\* the press on lane l repeats, at the same time, a press that consumed a
\* note at exactly its time
Repeated(l) == onTime = [lane |-> l, time |-> Now]

\* the press selected no note that was consumed before
SelectsUnconsumed ==
    last'.bestIdx # NoIdx => notes[last'.bestIdx + 1] \notin Consumed

\* C11 (as claimed): a press at exactly a note's time is Perfect (score
\* +1000, combo +1, that note removed); the same press repeated on the same
\* lane at the same time is a Miss (combo 0, score and chart unchanged); no
\* press selects a consumed note.
C11_RepeatIsMiss ==
    [][\A l \in Lanes : Press(l) =>
          /\ OnNote(l) => PerfectOnNote(l)
          /\ Repeated(l) => MissEffect
          /\ SelectsUnconsumed]_vars

\* no note of lane l other than one at exactly the current time lies within
\* the Good window of the current time
NoOtherInReach(l) ==
    \A i \in 1 .. Len(notes) :
        (notes[i].lane = l /\ notes[i].time # Now)
            => Abs(notes[i].time - Now) > good

\* C11 (amended): a press at exactly a note's time is Perfect (score +1000,
\* combo +1, that note removed); the same press repeated on the same lane at
\* the same time does not find that note, and is a Miss (combo 0, score and
\* chart unchanged) when no other note of the lane lies within 0.18 s of
\* that time; no press selects a consumed note.
C11_RepeatMissesThatNote ==
    [][\A l \in Lanes : Press(l) =>
          /\ OnNote(l) => PerfectOnNote(l)
          /\ Repeated(l) => /\ ~OnNote(l)
                            /\ NoOtherInReach(l) => MissEffect
          /\ SelectsUnconsumed]_vars

\* the press that repeated an exactly timed Perfect was a Miss: combo is 0
\* again and the score is that of the one Perfect
C11_Witness ==
    /\ last.op = "hit"
    /\ onTime = [lane |-> last.lane, time |-> last.now]
    /\ last.result \in { "Miss", "NoCandidate" }
    /\ [time |-> last.now, lane |-> last.lane] \in Consumed
    /\ tally.perfects = 1
    /\ score = 1000
    /\ combo = 0

----------------------------------------------------------------------------
(* C12: the artifacts in use are those of the loaded track                 *)

\* envelope, onsets and tempo are what analysis yields for track t
AnalysisOf(t) ==
    /\ energyEnv = ComputeEnvelope(t)
    /\ bpmEstimate = EstimateBPMFromEnv(t, energyEnv)
    /\ \E v \in SensValues :
          onsets = DetectOnsets(energyEnv, v, t.sampleRate)

\* the spectral frames, when there are any, are those of track t
FramesOf(t) ==
    freqDataOverTime # << >> => freqDataOverTime = ComputeSpectralFrames(t)

\* C12 (as claimed): in every state reached by generating a chart or by
\* starting playback in which an analysis has been made, the envelope,
\* onsets, tempo and spectral frames are those of the track that is loaded.
C12_ArtifactsOfLoadedTrack ==
    (last.op \in { "gen", "start" } /\ energyEnv # NoEnv)
        => AnalysisOf(audioBuffer) /\ FramesOf(audioBuffer)

----------------------------------------------------------------------------
(* C13: judgments between start and stop only                              *)

\* C13 (as claimed): a playback start sets score and combo to 0, and while
\* playback is not active no key press changes score, combo or chart.
C13_JudgedOnlyWhilePlaying ==
    [][/\ last'.op = "start" => (score' = 0 /\ combo' = 0)
       /\ (~playing /\ \E l \in Lanes : Press(l))
             => UNCHANGED << score, combo, notes >>]_vars

----------------------------------------------------------------------------
(* C14: requests with no track loaded                                      *)

\* C14: while no track is loaded, no step (an analyze, generate or start
\* request among them) changes onsets, tempo, envelope, spectral frames,
\* chart, playing, score or combo.
C14_RejectedWithoutEffect ==
    [][audioBuffer = NoTrack =>
          UNCHANGED << onsets, bpmEstimate, energyEnv, freqDataOverTime, notes,
                       playing, score, combo >>]_vars

\* a request was rejected while a chosen file was still being decoded
C14_Witness ==
    /\ last.op = "rejected"
    /\ audioBuffer = NoTrack
    /\ loading # {}
    /\ onsets = << >>
    /\ bpmEstimate = NoBpm
    /\ energyEnv = NoEnv
    /\ freqDataOverTime = << >>
    /\ notes = << >>
    /\ ~playing
    /\ score = 0
    /\ combo = 0

----------------------------------------------------------------------------
(* C15: only the leading edge of a key is judged                           *)

\* a step in which handleHit(l) ran
Judges(l) == last' # last /\ last'.op = "hit" /\ last'.lane = l

----------------------------------------------------------------------------
(* C16: the scan with early break against the specified rule               *)

\* the positions of the notes of lane l
SameLane(l) == { i \in 1 .. Len(notes) : notes[i].lane = l }

Dist(i) == Abs(notes[i].time - Now)

\* the position in X of least distance to the current time, the earliest
\* one when several are as near
NearestOf(X) ==
    CHOOSE i \in X :
        \A j \in X : Dist(i) < Dist(j) \/ (Dist(i) = Dist(j) /\ i <= j)

\* the scan selected the nearest of the notes at the positions X, or no
\* note when X is empty
Selects(X) ==
    IF X = {} THEN last'.bestIdx = NoIdx
    ELSE last'.bestIdx + 1 = NearestOf(X)

\* the specified rule: the nearest of the notes of lane l within missWindow
\* is judged; a Miss when there is none
SpecifiedOutcome(l) ==
    LET W == { i \in SameLane(l) : Dist(i) <= missWindow }
    IN  IF W = {} THEN MissEffect
        ELSE IF Dist(NearestOf(W)) <= perfect THEN HitEffect(1000, NearestOf(W))
        ELSE IF Dist(NearestOf(W)) <= good THEN HitEffect(500, NearestOf(W))
        ELSE MissEffect

\* C16 (as claimed): every press on a lane selects the nearest of all notes
\* of the lane, the earliest on ties (none when the lane has no note), and
\* its effect on score, combo and chart is that of the specified rule.
C16_ScanSelectsNearest ==
    [][\A l \in Lanes : Press(l) =>
          /\ Selects(SameLane(l))
          /\ SpecifiedOutcome(l)]_vars

\* C16 (amended): every press on a lane selects the nearest of the notes of
\* the lane that are less than 999 s from the current time, the earliest on
\* ties (none when the lane has no such note), and its effect on score,
\* combo and chart is that of the specified rule.
C16_ScanSelectsNearestInRange ==
    [][\A l \in Lanes : Press(l) =>
          /\ Selects({ i \in SameLane(l) : Dist(i) < Far })
          /\ SpecifiedOutcome(l)]_vars

\* a press midway between two notes of its lane took the earlier one, which
\* was not the first note of the chart
C16_Witness ==
    /\ last.op = "hit"
    /\ last.bestIdx > 0
    /\ last.bestDiff = (10 * TicksPerSec) \div 100
    /\ last.result = "Good"
    /\ Len(synth) = 3
    /\ synth[last.bestIdx + 1].time < last.now
    /\ \E i \in 1 .. Len(notes) :
          /\ notes[i].lane = last.lane
          /\ notes[i].time - last.now = last.bestDiff

----------------------------------------------------------------------------
(* C17: which onsets become notes, and at which time                       *)

\* the tempo in use: the estimate, 120 when there is none
TempoInUse == IF bpmEstimate = NoBpm THEN 120 ELSE bpmEstimate

\* the grid times of the chart generated last
GridTimes ==
    LET grid == BuildBeatGrid(TempoInUse, last.subdiv, Duration(audioBuffer))
    IN  { grid[k] : k \in 1 .. Len(grid) }

\* the grid times nearest to t
NearestGridTimes(t) ==
    { g \in GridTimes : \A h \in GridTimes : Abs(g - t) <= Abs(h - t) }

\* the nearest grid time is within half a grid spacing of t
Snaps(t) ==
    \E g \in NearestGridTimes(t) :
        2 * Abs(g - t) <= GridSpacing(TempoInUse, last.subdiv)

\* note n is onset t snapped to the grid
NoteOf(n, t) ==
    /\ n.time \in NearestGridTimes(t)
    /\ n.lane = FreqToLane(t, freqDataOverTime, sampleRate)

\* C17: in the chart generated from the onsets, every onset whose nearest
\* grid time is within half a grid spacing (of the grid built from the
\* estimated tempo, or from 120 when there is none) has a note at that grid
\* time, and every note is such an onset snapped to its nearest grid time;
\* an onset farther from the grid has no note.
C17_SnapWithinHalfSpacing ==
    last.op = "gen" =>
        /\ \A k \in 1 .. Len(onsets) :
              Snaps(onsets[k])
                  => \E i \in 1 .. Len(notes) : NoteOf(notes[i], onsets[k])
        /\ \A i \in 1 .. Len(notes) :
              \E k \in 1 .. Len(onsets) :
                  Snaps(onsets[k]) /\ NoteOf(notes[i], onsets[k])

\* of two onsets one was snapped to a grid time that is not its own time
\* and the other, farther than half a spacing from the grid, was dropped
C17_Witness ==
    /\ last.op = "gen"
    /\ Len(onsets) = 2
    /\ Len(notes) = 1
    /\ Snaps(onsets[1])
    /\ ~Snaps(onsets[2])
    /\ NoteOf(notes[1], onsets[1])
    /\ notes[1].time # onsets[1]

----------------------------------------------------------------------------
(* C18: the score accounts for the notes removed                           *)

\* with P Perfect and G Good judgments since the start: the score is
\* 1000 P + 500 G, P + G notes have left the chart, the score is at most
\* 1000 times the chart length at the start, and combo is at most P + G
ScoreAccounted ==
    /\ score = 1000 * tally.perfects + 500 * tally.goods
    /\ tally.perfects + tally.goods = tally.startLen - Len(notes)
    /\ score <= 1000 * tally.startLen
    /\ combo <= tally.perfects + tally.goods

\* C18: in every state of a playback session without regeneration the score
\* is 1000 P + 500 G for the P Perfect and G Good judgments since the start,
\* P + G is the number of notes removed since the start, the score is at
\* most 1000 times the chart length at the start and combo is at most
\* P + G; within the session the score never decreases.
C18_ScoreAccounting ==
    [][/\ playing' => ScoreAccounted'
       /\ (playing /\ playing' /\ last'.op # "start") => score' >= score]_vars

\* a session with one Perfect, one Good and a Miss after them
C18_Witness ==
    /\ playing
    /\ tally.perfects = 1
    /\ tally.goods = 1
    /\ score = 1500
    /\ combo = 0
    /\ Len(notes) = tally.startLen - 2

====
